---- MODULE Spec2Model ----
(***************************************************************************)
(* Model of src/src/xml_reader.rs: the streaming walker                    *)
(* XmlData::read_from_xml, its path tracker (depth + 10-slot path array),  *)
(* the record builders Rjs::from_attributes and DlsIP::from_attributes,    *)
(* find_attribute, the parse! macro and add_location_data.                 *)
(*                                                                         *)
(* Representation.  Tag names, attribute keys and location strings are     *)
(* TLA+ strings.  Attribute values are sequences of one-character strings  *)
(* so that parsing is computed digit by digit.  An attribute set is a      *)
(* sequence of <<key, value>> pairs in document order.  Option<T> is <<>>  *)
(* (None) or <<v>> (Some(v)).  Result<T> is [ok |-> TRUE, val |-> v] or    *)
(* [ok |-> FALSE, err |-> e].                                              *)
(***************************************************************************)
EXTENDS Integers, Sequences, FiniteSets, TLC

\* [const { None }; 10]: the number of slots of the path array
Capacity == 10

\* u16::MAX and u8::MAX, the widths the parsers check against
U16Max == 65535
U8Max == 255

\* depth is a usize: this is the representative of usize::MAX = 2^64 - 1
\* modulo 2^64, the value `depth -= 1` leaves at depth 0 in a build without
\* overflow checks (Wrapped + 1 = 0, as in wrapping arithmetic)
Wrapped == -1

DigitChars == {"0", "1", "2", "3", "4", "5", "6", "7", "8", "9"}

\* char::to_digit(10)
to_digit(c) ==
  CASE c = "0" -> 0 [] c = "1" -> 1 [] c = "2" -> 2 [] c = "3" -> 3
    [] c = "4" -> 4 [] c = "5" -> 5 [] c = "6" -> 6 [] c = "7" -> 7
    [] c = "8" -> 8 [] c = "9" -> 9

Ok(v) == [ok |-> TRUE, val |-> v]
Err(e) == [ok |-> FALSE, err |-> e]

\* ConfigError variants
ParseError(input, to, cause) ==
  [kind |-> "ParseError", input |-> input, to |-> to, cause |-> cause]
MissingAttribute(name) == [kind |-> "MissingAttribute", name |-> name]
InvalidValue(name, value) ==
  [kind |-> "InvalidValue", name |-> name, value |-> value]

\* impl From<ConfigError> for Error
FromConfigError(value) ==
  [tag |-> "ConfigError", error |-> value, location |-> "unknown location"]

\* impl From<std::io::Error> for Error (#[from])
FromIoError(e) == [tag |-> "IoError", error |-> e]

\* impl From<quick_xml::Error> for Error (#[from])
FromXmlError(e) == [tag |-> "XmlError", error |-> e]

(***************************************************************************)
(* <u16 as FromStr>::from_str, as called by parse!(port, u16).  The        *)
(* accumulation is checked against the width at every digit.               *)
(***************************************************************************)
\* a mutation of checked_mul_add: the arithmetic wraps at the width
checked_mul_add_wrapping(acc, d, max) == <<(acc * 10 + d) % (max + 1)>>

\* checked_mul(10) followed by checked_add(d) on an unsigned of maximum max:
\* <<>> on overflow, <<value>> otherwise
checked_mul_add(acc, d, max) ==
  IF acc * 10 > max THEN <<>>
  ELSE IF acc * 10 + d > max THEN <<>>
  ELSE <<acc * 10 + d>>

RECURSIVE accumulate_digits(_, _, _)
accumulate_digits(s, acc, max) ==
  IF s = <<>> THEN Ok(acc)
  ELSE IF Head(s) \notin DigitChars THEN Err("invalid digit found in string")
  ELSE LET r == checked_mul_add(acc, to_digit(Head(s)), max) IN
       IF r = <<>> THEN Err("number too large to fit in target type")
       ELSE accumulate_digits(Tail(s), r[1], max)

from_str_unsigned(s, max) ==
  IF s = <<>> THEN Err("cannot parse integer from empty string")
  ELSE IF Len(s) = 1 /\ Head(s) \in {"+", "-"}
       THEN Err("invalid digit found in string")
  ELSE accumulate_digits(IF Head(s) = "+" THEN Tail(s) ELSE s, 0, max)

\* parse!(i, u16)
parse_u16(i) ==
  LET r == from_str_unsigned(i, U16Max) IN
  IF r.ok THEN r ELSE Err(ParseError(i, "u16", r.err))

(***************************************************************************)
(* <IpAddr as FromStr>::from_str, as called by parse!(ip, IpAddr).  A text *)
(* without ':' is never an IPv6 form, so on the values used here           *)
(* read_ip_addr is read_ipv4_addr followed by the end-of-input check.      *)
(***************************************************************************)
RECURSIVE digit_run(_)
\* the longest prefix of s made of decimal digits
digit_run(s) ==
  IF s = <<>> \/ Head(s) \notin DigitChars THEN <<>>
  ELSE <<Head(s)>> \o digit_run(Tail(s))

\* Parser::read_number(10, Some(3), false) for u8: <<>> or <<value, rest>>
read_number_u8(s) ==
  LET run == digit_run(s)
      v == accumulate_digits(run, 0, U8Max)
  IN IF Len(run) = 0 \/ Len(run) > 3 THEN <<>>
     ELSE IF ~v.ok THEN <<>>
     ELSE IF Head(run) = "0" /\ Len(run) > 1 THEN <<>>
     ELSE <<v.val, SubSeq(s, Len(run) + 1, Len(s))>>

RECURSIVE read_ipv4_groups(_, _, _)
\* Parser::read_ipv4_addr: 4 groups, a '.' before every group but the first;
\* <<>> or <<octets, rest>>
read_ipv4_groups(s, i, groups) ==
  IF i = 4 THEN <<groups, s>>
  ELSE IF i > 0 /\ (s = <<>> \/ Head(s) # ".") THEN <<>>
  ELSE LET n == read_number_u8(IF i > 0 THEN Tail(s) ELSE s) IN
       IF n = <<>> THEN <<>>
       ELSE read_ipv4_groups(n[2], i + 1, Append(groups, n[1]))

\* parse!(i, IpAddr)
parse_IpAddr(i) ==
  LET r == read_ipv4_groups(i, 0, <<>>) IN
  IF r # <<>> /\ r[2] = <<>> THEN Ok([v4 |-> r[1]])
  ELSE Err(ParseError(i, "IpAddr", "invalid IP address syntax"))

(***************************************************************************)
(* Attribute extractor and record builders                                 *)
(***************************************************************************)
\* The items the Attributes iterator of a tag yields, in document order, with
\* its default duplicate check: Ok(attribute) for an attribute, and
\* Err(Duplicated) for an attribute whose key an earlier attribute of the
\* same tag has.
attributes(attrs) ==
  [i \in 1 .. Len(attrs) |->
     IF \E j \in 1 .. i - 1 : attrs[j][1] = attrs[i][1]
     THEN Err("Duplicated")
     ELSE Ok(attrs[i])]

\* eq_ignore_ascii_case on the keys used in the documents
to_lower(k) ==
  IF k = "IP" THEN "ip" ELSE IF k = "PORT" THEN "port" ELSE k

RECURSIVE find_map_ignore_case(_, _)
\* a mutation of find_map: the keys are compared without regard to case
find_map_ignore_case(items, data) ==
  IF items = <<>> THEN <<>>
  ELSE IF Head(items).ok /\ to_lower(Head(items).val[1]) = data
       THEN <<Head(items).val>>
  ELSE find_map_ignore_case(Tail(items), data)

RECURSIVE find_map(_, _)
\* attrs.clone().find_map(..): the first item that is Ok and whose key equals
\* data
find_map(items, data) ==
  IF items = <<>> THEN <<>>
  ELSE IF Head(items).ok /\ Head(items).val[1] = data
       THEN <<Head(items).val>>
  ELSE find_map(Tail(items), data)

\* a mutation of find_attribute: the error does not name the attribute asked
\* for but the last attribute of the element
find_attribute_last_key(attrs, data) ==
  LET attr == find_map(attributes(attrs), data) IN
  IF attr # <<>> THEN Ok(attr[1][2])
  ELSE Err(FromConfigError(MissingAttribute(
             IF attrs = <<>> THEN "" ELSE attrs[Len(attrs)][1])))

find_attribute(attrs, data) ==
  LET attr == find_map(attributes(attrs), data) IN
  IF attr # <<>> THEN Ok(attr[1][2])
  ELSE Err(FromConfigError(MissingAttribute(data)))

\* the `?` applied to a parse! result: ConfigError -> Error through From
Try(r) == IF r.ok THEN r ELSE Err(FromConfigError(r.err))

HOSTS == <<"H", "O", "S", "T", "S">>
STATIC == <<"S", "T", "A", "T", "I", "C">>
P2P == <<"P", "2", "P">>
BROADCAST == <<"B", "R", "O", "A", "D", "C", "A", "S", "T">>

\* a mutation of match_connection: every accepted value becomes P2P
match_connection_p2p(i) ==
  IF i \in {P2P, BROADCAST} THEN Ok("P2P")
  ELSE Err(FromConfigError(InvalidValue("connection", i)))

\* the inner match of the "HOSTS" arm on the connection value
match_connection(i) ==
  IF i = P2P THEN Ok("P2P")
  ELSE IF i = BROADCAST THEN Ok("Broadcast")
  ELSE Err(FromConfigError(InvalidValue("connection", i)))

\* a mutation of DlsIP_from_attributes: in the "HOSTS" arm alias is extracted
\* before connection is looked at
DlsIP_from_attributes_alias_first(attrs) ==
  LET source == find_attribute(attrs, "source") IN
  IF ~source.ok THEN source
  ELSE IF source.val = HOSTS THEN
    LET alias == find_attribute(attrs, "alias") IN
    IF ~alias.ok THEN alias
    ELSE LET c == find_attribute(attrs, "connection") IN
    IF ~c.ok THEN c
    ELSE LET connection == match_connection(c.val) IN
    IF ~connection.ok THEN connection
    ELSE Ok([variant |-> "Hosts", alias |-> alias.val,
             connection |-> connection.val])
  ELSE IF source.val = STATIC THEN
    LET ip == find_attribute(attrs, "ip") IN
    IF ~ip.ok THEN ip
    ELSE LET parsed == Try(parse_IpAddr(ip.val)) IN
         IF ~parsed.ok THEN parsed
         ELSE Ok([variant |-> "Static", ip |-> parsed.val])
  ELSE Err(FromConfigError(InvalidValue("source", source.val)))

DlsIP_from_attributes(attrs) ==
  LET source == find_attribute(attrs, "source") IN
  IF ~source.ok THEN source
  ELSE IF source.val = HOSTS THEN
    LET c == find_attribute(attrs, "connection") IN
    IF ~c.ok THEN c
    ELSE LET connection == match_connection(c.val) IN
    IF ~connection.ok THEN connection
    ELSE LET alias == find_attribute(attrs, "alias") IN
         IF ~alias.ok THEN alias
         ELSE Ok([variant |-> "Hosts", alias |-> alias.val,
                  connection |-> connection.val])
  ELSE IF source.val = STATIC THEN
    LET ip == find_attribute(attrs, "ip") IN
    IF ~ip.ok THEN ip
    ELSE LET parsed == Try(parse_IpAddr(ip.val)) IN
         IF ~parsed.ok THEN parsed
         ELSE Ok([variant |-> "Static", ip |-> parsed.val])
  ELSE Err(FromConfigError(InvalidValue("source", source.val)))

\* a mutation of Rjs_from_attributes: every attribute is extracted and
\* converted in the order of the struct fields
Rjs_from_attributes_field_order(attrs) ==
  LET prejezd == find_attribute(attrs, "prejezd") IN
  IF ~prejezd.ok THEN prejezd ELSE
  LET ip == find_attribute(attrs, "ip") IN
  IF ~ip.ok THEN ip ELSE
  LET ipv == Try(parse_IpAddr(ip.val)) IN
  IF ~ipv.ok THEN ipv ELSE
  LET port == find_attribute(attrs, "port") IN
  IF ~port.ok THEN port ELSE
  LET portv == Try(parse_u16(port.val)) IN
  IF ~portv.ok THEN portv ELSE
  LET rjs_type == find_attribute(attrs, "type") IN
  IF ~rjs_type.ok THEN rjs_type ELSE
  Ok([prejezd |-> prejezd.val, ip |-> ipv.val, port |-> portv.val,
      rjs_type |-> rjs_type.val])

Rjs_from_attributes(attrs) ==
  LET ip == find_attribute(attrs, "ip") IN
  IF ~ip.ok THEN ip ELSE
  LET port == find_attribute(attrs, "port") IN
  IF ~port.ok THEN port ELSE
  LET prejezd == find_attribute(attrs, "prejezd") IN
  IF ~prejezd.ok THEN prejezd ELSE
  LET ipv == Try(parse_IpAddr(ip.val)) IN
  IF ~ipv.ok THEN ipv ELSE
  LET portv == Try(parse_u16(port.val)) IN
  IF ~portv.ok THEN portv ELSE
  LET rjs_type == find_attribute(attrs, "type") IN
  IF ~rjs_type.ok THEN rjs_type ELSE
  Ok([prejezd |-> prejezd.val, ip |-> ipv.val, port |-> portv.val,
      rjs_type |-> rjs_type.val])

(***************************************************************************)
(* Path tracker helpers and location stamping                              *)
(***************************************************************************)
\* [const { None }; 10]
EmptyPath == [i \in 0 .. Capacity - 1 |-> <<>>]

\* a mutation of tracked: the comparison is off by one
tracked_inclusive(d) == d # Wrapped /\ Capacity >= d

\* `path.len() > depth` on usize values
tracked(d) == d # Wrapped /\ Capacity > d

\* `path[d]` is a bounds-checked index: outside 0 .. len-1 it panics
in_bounds(p, d) == d \in DOMAIN p

RECURSIVE filter_names(_, _)
\* path.iter().filter_map(|f| f.as_ref()).map(name), from slot i upward
filter_names(p, i) ==
  IF i \notin DOMAIN p THEN <<>>
  ELSE p[i] \o filter_names(p, i + 1)

RECURSIVE join(_)
\* .join("/")
join(names) ==
  IF names = <<>> THEN ""
  ELSE IF Len(names) = 1 THEN names[1]
  ELSE names[1] \o "/" \o join(Tail(names))

\* a mutation of add_location_data: every error is turned into a located one
add_location_data_any_error(res, p) ==
  IF ~res.ok
  THEN Err([tag |-> "ConfigError", error |-> res.err.error,
            location |-> join(filter_names(p, 0))])
  ELSE res

\* a mutation of add_location_data: the result is passed on unstamped
add_location_data_skip(res, p) == res

add_location_data(res, p) ==
  IF ~res.ok /\ res.err.tag = "ConfigError"
  THEN Err([res.err EXCEPT !.location = join(filter_names(p, 0))])
  ELSE res

(***************************************************************************)
(* State of one call of XmlData::read_from_xml                             *)
(***************************************************************************)
VARIABLES
  depth,     \* let mut depth = 0
  path,      \* let mut path: [Option<BytesStart>; 10]; only name() of a
             \* stored element is ever read, so a slot holds the tag name
  rjss,      \* data.rjss
  diagnet,   \* data.diagnet
  result,    \* Running inside the loop, then the value the call returned
  ev,        \* the event xml.read_event() delivered last
  opened,    \* reader side: names of the elements open at the cursor
  seenRjs,   \* history: the self-closing rjs elements delivered so far
  seenDlsip, \* history: the self-closing dlsip elements delivered so far
  firstBad   \* history: the first reader error or failing element delivered

walker == <<depth, path, rjss, diagnet, result>>
vars == <<depth, path, rjss, diagnet, result, ev, opened, seenRjs, seenDlsip,
          firstBad>>

Running == [tag |-> "Running"]
Returned(r) == [tag |-> "Returned", value |-> r]
Panicked(msg) == [tag |-> "Panic", msg |-> msg]

\* the loop of read_from_xml reads another event only while no arm returned
looping(res) == res = Running

\* Self::default()
XmlData_default == [rjss |-> <<>>, diagnet |-> <<>>]

(***************************************************************************)
(* The arms of `match xml.read_event()`                                    *)
(***************************************************************************)
\* if path.len() > depth { path[depth] = Some(e) }  depth += 1
\* [panic, path, depth] after the entry of element `name` at depth d
enter(p, d, name) ==
  IF tracked(d) /\ ~in_bounds(p, d)
  THEN [panic |-> TRUE, path |-> p, depth |-> d]
  ELSE [panic |-> FALSE,
        path |-> IF tracked(d) THEN [p EXCEPT ![d] = <<name>>] ELSE p,
        depth |-> d + 1]

\* a mutation of HandleStart: an open tag named rjs or dlsip is handed to the
\* builder as a self-closing one is
HandleStart_build(e) ==
  LET n == enter(path, depth, e.name)
      res == IF e.name = "rjs" THEN Rjs_from_attributes(e.attrs)
             ELSE DlsIP_from_attributes(e.attrs)
  IN
  IF e.name \in {"rjs", "dlsip"} /\ ~res.ok
  THEN /\ result' = [tag |-> "Returned", value |-> Err(res.err)]
       /\ depth' = n.depth
       /\ path' = n.path
       /\ UNCHANGED <<rjss, diagnet>>
  ELSE /\ depth' = n.depth
       /\ path' = n.path
       /\ rjss' = IF e.name = "rjs" THEN Append(rjss, res.val) ELSE rjss
       /\ diagnet' = IF e.name = "dlsip" THEN Append(diagnet, res.val)
                     ELSE diagnet
       /\ UNCHANGED result

\* Event::Start(e)
HandleStart(e) ==
  LET n == enter(path, depth, e.name) IN
  IF n.panic
  THEN /\ result' = Panicked("index out of bounds")
       /\ UNCHANGED <<depth, path, rjss, diagnet>>
  ELSE /\ depth' = n.depth
       /\ path' = n.path
       /\ UNCHANGED <<rjss, diagnet, result>>

\* Event::End(_):  depth -= 1;  if path.len() > depth { path[depth] = None }
\* At depth 0 the subtraction overflows: a panic with overflow checks, a wrap
\* to usize::MAX without them.
HandleEnd ==
  IF depth = 0
  THEN \E build \in {"checked", "wrapping"} :
         IF build = "checked"
         THEN /\ result' = Panicked("attempt to subtract with overflow")
              /\ UNCHANGED <<depth, path, rjss, diagnet>>
         ELSE /\ depth' = Wrapped
              /\ UNCHANGED <<path, rjss, diagnet, result>>
  ELSE IF tracked(depth - 1) /\ ~in_bounds(path, depth - 1)
  THEN /\ result' = Panicked("index out of bounds")
       /\ UNCHANGED <<depth, path, rjss, diagnet>>
  ELSE /\ depth' = depth - 1
       /\ path' = IF tracked(depth - 1)
                  THEN [path EXCEPT ![depth - 1] = <<>>] ELSE path
       /\ UNCHANGED <<rjss, diagnet, result>>

\* a mutation of dispatch: the prefix of the name is dropped before the match
dispatch_local(e) ==
  IF e.name \in {"rjs", "p:rjs"} THEN "rjs"
  ELSE IF e.name \in {"dlsip", "p:dlsip"} THEN "dlsip"
  ELSE "none"

\* the builder an Event::Empty is dispatched to: match e.name(), where name()
\* is the qualified name (prefix included)
dispatch(e) ==
  IF e.name = "rjs" THEN "rjs" ELSE IF e.name = "dlsip" THEN "dlsip"
  ELSE "none"

\* a mutation of leave_empty: the decrement is forgotten
leave_empty_keep(p, d) == [path |-> p, depth |-> d]

\* the statement that ends the Event::Empty arm: depth -= 1 (the slot written
\* at entry is left as it is)
leave_empty(p, d) == [path |-> p, depth |-> d - 1]

\* a mutation of push: the record goes in front
push_front(v, rec) == <<rec>> \o v

\* a mutation of push: the record is stored twice
push_twice(v, rec) == Append(Append(v, rec), rec)

\* Vec::push
push(v, rec) == Append(v, rec)

\* Event::Empty(e)
HandleEmpty(e) ==
  LET n == enter(path, depth, e.name)
      k == dispatch(e)
      res == IF k = "rjs"
             THEN add_location_data(Rjs_from_attributes(e.attrs), n.path)
             ELSE add_location_data(DlsIP_from_attributes(e.attrs), n.path)
      out == leave_empty(n.path, n.depth)
  IN
  IF n.panic
  THEN /\ result' = Panicked("index out of bounds")
       /\ UNCHANGED <<depth, path, rjss, diagnet>>
  ELSE IF k # "none" /\ ~res.ok
  THEN \* rjs? / dlsip? returns the error; the locals are as they were left
       /\ result' = Returned(Err(res.err))
       /\ depth' = n.depth
       /\ path' = n.path
       /\ UNCHANGED <<rjss, diagnet>>
  ELSE /\ rjss' = IF k = "rjs" THEN push(rjss, res.val) ELSE rjss
       /\ diagnet' = IF k = "dlsip" THEN push(diagnet, res.val) ELSE diagnet
       /\ depth' = out.depth
       /\ path' = out.path
       /\ UNCHANGED result

\* a mutation of HandleEof: the loop is not left
HandleEof_continue == UNCHANGED walker

\* Event::Eof => break, then Ok(data)
HandleEof ==
  /\ result' = Returned(Ok([rjss |-> rjss, diagnet |-> diagnet]))
  /\ UNCHANGED <<depth, path, rjss, diagnet>>

\* _ => {}: text, comment, declaration, ...
HandleOther == UNCHANGED walker

\* a mutation of HandleErr: the reader error is dropped and the loop goes on
HandleErr_swallow(e) == UNCHANGED walker

\* Err(e) => return Err(e.into())
HandleErr(e) ==
  /\ result' = Returned(Err(FromXmlError(e.error)))
  /\ UNCHANGED <<depth, path, rjss, diagnet>>

(***************************************************************************)
(* The event reader (quick_xml::Reader with its default configuration):    *)
(* it delivers an End event only for an element it has delivered a Start   *)
(* for (an unmatched close tag is a reader error), and nothing after Eof   *)
(* or an error is read by the walker.                                      *)
(***************************************************************************)
builder_fails(e) ==
  /\ e.kind = "Empty"
  /\ \/ e.name = "rjs" /\ ~Rjs_from_attributes(e.attrs).ok
     \/ e.name = "dlsip" /\ ~DlsIP_from_attributes(e.attrs).ok

\* the reader's cursor moves over e; the histories record it
Deliver(e) ==
  /\ ev' = e
  /\ opened' = IF e.kind = "Start" THEN Append(opened, e.name)
               ELSE IF e.kind = "End" THEN SubSeq(opened, 1, Len(opened) - 1)
               ELSE opened
  /\ seenRjs' = IF e.kind = "Empty" /\ e.name = "rjs"
                THEN Append(seenRjs, e) ELSE seenRjs
  /\ seenDlsip' = IF e.kind = "Empty" /\ e.name = "dlsip"
                  THEN Append(seenDlsip, e) ELSE seenDlsip
  /\ firstBad' = IF firstBad = <<>> /\ (e.kind = "Err" \/ builder_fails(e))
                 THEN <<e>> ELSE firstBad

StartEvent(name, attrs) == [kind |-> "Start", name |-> name, attrs |-> attrs]
EmptyEvent(name, attrs) == [kind |-> "Empty", name |-> name, attrs |-> attrs]
EndEvent == [kind |-> "End"]
EofEvent == [kind |-> "Eof"]
OtherEvents == {[kind |-> "Text"], [kind |-> "Comment"]}
ErrEvents == {[kind |-> "Err", error |-> "IllFormed"],
              [kind |-> "Err", error |-> "Syntax"]}

ReadStart(elems, maxDepth) ==
  /\ looping(result)
  /\ Len(opened) < maxDepth
  /\ \E e \in elems : HandleStart(e) /\ Deliver(e)

ReadEnd ==
  /\ looping(result)
  /\ opened # <<>>
  /\ HandleEnd /\ Deliver(EndEvent)

ReadEmpty(elems, maxRecs) ==
  /\ looping(result)
  /\ \E e \in elems :
       /\ dispatch(e) # "none" => Len(seenRjs) + Len(seenDlsip) < maxRecs
       /\ HandleEmpty(e) /\ Deliver(e)

ReadOther ==
  /\ looping(result)
  /\ \E e \in OtherEvents : HandleOther /\ Deliver(e)

ReadEof ==
  /\ looping(result)
  /\ HandleEof /\ Deliver(EofEvent)

ReadErr ==
  /\ looping(result)
  /\ \E e \in ErrEvents : HandleErr(e) /\ Deliver(e)

Init ==
  /\ depth = 0
  /\ path = EmptyPath
  /\ rjss = XmlData_default.rjss
  /\ diagnet = XmlData_default.diagnet
  /\ result = Running
  /\ ev = [kind |-> "None"]
  /\ opened = <<>>
  /\ seenRjs = <<>>
  /\ seenDlsip = <<>>
  /\ firstBad = <<>>

(***************************************************************************)
(* Documents of bounded depth with a bounded number of rjs/dlsip elements  *)
(***************************************************************************)
MaxDepth == 3
MaxRecs == 2

V_P1 == <<"P", "1">>
V_P2 == <<"P", "2">>
V_A == <<"A">>
V_a == <<"a">>
V_FOO == <<"F", "O", "O">>
V_WIFI == <<"W", "I", "F", "I">>
V_IP1 == <<"1", "0", ".", "0", ".", "0", ".", "1">>
V_IP2 == <<"1", "0", ".", "0", ".", "0", ".", "2">>
V_5000 == <<"5", "0", "0", "0">>
V_70000 == <<"7", "0", "0", "0", "0">>

RjsAttrs(prejezd, ip, port, type) ==
  <<<<"prejezd", prejezd>>, <<"ip", ip>>, <<"port", port>>, <<"type", type>>>>

StartElems == {StartEvent("root", <<>>), StartEvent("rjs", <<>>)}

Elems ==
  { EmptyEvent("rjs", RjsAttrs(V_P1, V_IP1, V_5000, V_A)),
    EmptyEvent("rjs", RjsAttrs(V_P2, V_IP2, V_5000, V_A)),
    EmptyEvent("rjs", <<<<"prejezd", V_P1>>, <<"ip", V_IP1>>, <<"type", V_A>>>>),
    EmptyEvent("dlsip", <<<<"source", STATIC>>, <<"ip", V_IP2>>>>),
    EmptyEvent("dlsip", <<<<"source", HOSTS>>, <<"alias", V_a>>,
                          <<"connection", P2P>>>>),
    EmptyEvent("dlsip", <<<<"source", V_FOO>>>>),
    EmptyEvent("x", <<>>) }

Next ==
  \/ ReadStart(StartElems, MaxDepth)
  \/ ReadEnd
  \/ ReadEmpty(Elems, MaxRecs)
  \/ ReadOther
  \/ ReadEof
  \/ ReadErr

Spec == Init /\ [][Next]_vars

\* The same documents, finite: the reader comes to the end of the text, so
\* as long as the walker keeps reading, Eof is eventually delivered.
SpecLive == Init /\ [][Next]_vars /\ WF_vars(ReadEof)

(***************************************************************************)
(* Documents nested deeper than the path array, with few self-closing      *)
(* elements                                                                *)
(***************************************************************************)
MaxDeep == 11
MaxDeepRecs == 1

DeepStartElems == {StartEvent("root", <<>>), StartEvent("seg", <<>>)}

DeepElems ==
  { EmptyEvent("rjs", RjsAttrs(V_P1, V_IP1, V_5000, V_A)),
    EmptyEvent("rjs", <<<<"prejezd", V_P1>>, <<"ip", V_IP1>>, <<"type", V_A>>>>),
    EmptyEvent("dlsip", <<<<"source", V_FOO>>>>) }

NextDeep ==
  \/ ReadStart(DeepStartElems, MaxDeep)
  \/ ReadEnd
  \/ ReadEmpty(DeepElems, MaxDeepRecs)
  \/ ReadOther
  \/ ReadEof
  \/ ReadErr

SpecDeep == Init /\ [][NextDeep]_vars

(***************************************************************************)
(* Documents with few elements whose attributes range over present/absent  *)
(* and valid/invalid values: the inputs of the record builders             *)
(***************************************************************************)
MaxBuildDepth == 1
MaxBuildElems == 1

V_0 == <<"0">>
V_65535 == <<"6", "5", "5", "3", "5">>
V_65536 == <<"6", "5", "5", "3", "6">>
V_655350 == <<"6", "5", "5", "3", "5", "0">>
V_065535 == <<"0", "6", "5", "5", "3", "5">>
V_plus80 == <<"+", "8", "0">>
V_minus1 == <<"-", "1">>
V_8a == <<"8", "a">>
V_empty == <<>>
V_IP256 == <<"2", "5", "6", ".", "0", ".", "0", ".", "1">>
V_IP3 == <<"1", ".", "2", ".", "3">>
V_hosts == <<"h", "o", "s", "t", "s">>

\* an attribute that may be absent: o is <<>> or <<value>>
Opt(key, o) == IF o = <<>> THEN <<>> ELSE <<<<key, o[1]>>>>
Maybe(values) == {<<>>} \cup {<<v>> : v \in values}

PrejezdValues == {V_P1}
IpValues == {V_IP1, V_IP256, V_IP3}
PortValues == {V_0, V_5000, V_65535, V_65536, V_70000, V_655350, V_065535,
               V_plus80, V_minus1, V_8a, V_empty}
TypeValues == {V_A}
SourceValues == {HOSTS, STATIC, V_FOO, V_hosts}
ConnectionValues == {P2P, BROADCAST, V_WIFI}
AliasValues == {V_a}
DlsipIpValues == {V_IP2, V_IP3}

BuildRjs ==
  { EmptyEvent("rjs", Opt("prejezd", p) \o Opt("ip", i) \o Opt("port", q)
                        \o Opt("type", t)) :
      p \in Maybe(PrejezdValues), i \in Maybe(IpValues),
      q \in Maybe(PortValues), t \in Maybe(TypeValues) }

BuildDlsip ==
  { EmptyEvent("dlsip", Opt("alias", a) \o Opt("ip", i) \o Opt("connection", c)
                          \o Opt("source", s)) :
      a \in Maybe(AliasValues), i \in Maybe(DlsipIpValues),
      c \in Maybe(ConnectionValues), s \in Maybe(SourceValues) }

\* elements with a repeated key, and with keys that differ from a required
\* one by case or by a further letter
BuildOdd ==
  { EmptyEvent("rjs", <<<<"ip", V_IP1>>, <<"ip", V_IP2>>, <<"port", V_5000>>,
                        <<"prejezd", V_P1>>, <<"type", V_A>>>>),
    EmptyEvent("rjs", <<<<"port", V_70000>>, <<"port", V_5000>>,
                        <<"ip", V_IP1>>, <<"prejezd", V_P1>>, <<"type", V_A>>>>),
    EmptyEvent("rjs", <<<<"IP", V_IP1>>, <<"port", V_5000>>,
                        <<"prejezd", V_P1>>, <<"type", V_A>>>>),
    EmptyEvent("rjs", <<<<"ip", V_IP1>>, <<"ports", V_5000>>,
                        <<"prejezd", V_P1>>, <<"type", V_A>>>>),
    EmptyEvent("dlsip", <<<<"source", V_FOO>>, <<"source", STATIC>>,
                          <<"ip", V_IP2>>>>) }

BuildElems == BuildRjs \cup BuildDlsip \cup BuildOdd
BuildStartElems == {StartEvent("root", <<>>)}

NextBuild ==
  \/ ReadStart(BuildStartElems, MaxBuildDepth)
  \/ ReadEnd
  \/ ReadEmpty(BuildElems, MaxBuildElems)
  \/ ReadOther
  \/ ReadEof
  \/ ReadErr

SpecBuild == Init /\ [][NextBuild]_vars

(***************************************************************************)
(* Documents whose tags are named rjs and dlsip without being self-closing *)
(* elements of that name: open/close tags, and names with a prefix         *)
(***************************************************************************)
MaxTagDepth == 2
MaxTagRecs == 1

TagStartElems ==
  { StartEvent("root", <<>>),
    StartEvent("rjs", RjsAttrs(V_P1, V_IP1, V_70000, V_A)),
    StartEvent("dlsip", <<<<"source", V_FOO>>>>) }

TagElems ==
  { EmptyEvent("rjs", RjsAttrs(V_P1, V_IP1, V_5000, V_A)),
    EmptyEvent("dlsip", <<<<"source", V_FOO>>>>),
    EmptyEvent("p:rjs", RjsAttrs(V_P1, V_IP1, V_5000, V_A)),
    EmptyEvent("p:dlsip", <<<<"source", V_FOO>>>>) }

NextTags ==
  \/ ReadStart(TagStartElems, MaxTagDepth)
  \/ ReadEnd
  \/ ReadEmpty(TagElems, MaxTagRecs)
  \/ ReadOther
  \/ ReadEof
  \/ ReadErr

SpecTags == Init /\ [][NextTags]_vars

(***************************************************************************)
(* Properties                                                              *)
(***************************************************************************)
\* the records the builders make of a sequence of delivered elements
RjsRecords(elems) ==
  [i \in 1 .. Len(elems) |-> Rjs_from_attributes(elems[i].attrs).val]
DlsipRecords(elems) ==
  [i \in 1 .. Len(elems) |-> DlsIP_from_attributes(elems[i].attrs).val]

ReturnedOk == result.tag = "Returned" /\ result.value.ok
ReturnedErr == result.tag = "Returned" /\ ~result.value.ok

\* C1: when no reader error and no failing rjs/dlsip element was delivered,
\* the call returns Ok, and rjss (diagnet) holds exactly one record per
\* self-closing rjs (dlsip) element delivered, the i-th record being the one
\* built from the i-th such element in document order.
C1_RecordsInDocumentOrder ==
  (result.tag = "Returned" /\ firstBad = <<>>) =>
    /\ result.value.ok
    /\ result.value.val.rjss = RjsRecords(seenRjs)
    /\ result.value.val.diagnet = DlsipRecords(seenDlsip)

\* a balanced document with one rjs and one dlsip was read to its end
C1_Witness ==
  /\ ReturnedOk
  /\ firstBad = <<>>
  /\ Len(result.value.val.rjss) = 1 /\ Len(result.value.val.diagnet) = 1
  /\ Len(opened) = 0

\* the error the first failing event must produce, location apart
ErrorOf(e) ==
  IF e.kind = "Err" THEN FromXmlError(e.error)
  ELSE IF e.name = "rjs" THEN Rjs_from_attributes(e.attrs).err
  ELSE DlsIP_from_attributes(e.attrs).err

SameError(a, b) ==
  /\ a.tag = b.tag
  /\ a.error = b.error
  /\ a.tag = "XmlError" => a = b

\* C2: no partial success.  As soon as a reader error or a failing rjs/dlsip
\* element has been delivered the call has returned; it returned the error
\* of that first failing event and nothing else (no records), and that event
\* is the last one read.  A call that returned without any failing event
\* returned every record.
C2_FirstErrorOrEverything ==
  /\ firstBad # <<>> =>
       /\ result.tag = "Returned"
       /\ DOMAIN result.value = {"ok", "err"}
       /\ ~result.value.ok
       /\ SameError(result.value.err, ErrorOf(firstBad[1]))
       /\ ev = firstBad[1]
  /\ (firstBad = <<>> /\ result.tag = "Returned") =>
       /\ DOMAIN result.value = {"ok", "val"}
       /\ result.value.ok
       /\ Len(result.value.val.rjss) = Len(seenRjs)
       /\ Len(result.value.val.diagnet) = Len(seenDlsip)

\* a reader error after two records had been accumulated
C2_Witness ==
  /\ ReturnedErr
  /\ result.value.err.tag = "XmlError"
  /\ Len(rjss) + Len(diagnet) = 2

\* C3: the location of a configuration error raised at a self-closing
\* rjs/dlsip element nested below depth 10 is the names of the open
\* ancestors from the root down, then the element's own name, joined by "/",
\* and nothing else.
C3_LocationIsAncestorsThenElement ==
  (ReturnedErr /\ result.value.err.tag = "ConfigError"
     /\ Len(opened) < Capacity) =>
    result.value.err.location = join(Append(opened, ev.name))

(***************************************************************************)
(* Builder properties: what the element just read says, read off its       *)
(* attribute list directly                                                 *)
(***************************************************************************)
Has(attrs, k) == \E i \in 1 .. Len(attrs) : attrs[i][1] = k
\* the value of the first attribute with key k
ValueOf(attrs, k) ==
  attrs[CHOOSE i \in 1 .. Len(attrs) :
          attrs[i][1] = k /\ \A j \in 1 .. i - 1 : attrs[j][1] # k][2]
NotKey(k, a) == a[1] # k
RECURSIVE Without(_, _)
Without(attrs, k) ==
  IF attrs = <<>> THEN <<>>
  ELSE (IF Head(attrs)[1] = k THEN <<>> ELSE <<Head(attrs)>>)
         \o Without(Tail(attrs), k)

JustReadRjs == ev.kind = "Empty" /\ ev.name = "rjs"
JustReadDlsip == ev.kind = "Empty" /\ ev.name = "dlsip"
FailedWith(cause) ==
  /\ ReturnedErr
  /\ result.value.err.tag = "ConfigError"
  /\ result.value.err.error = cause
BuiltRjs(rec) ==
  result = Running /\ rjss # <<>> /\ rjss[Len(rjss)] = rec
BuiltDlsip(rec) ==
  result = Running /\ diagnet # <<>> /\ diagnet[Len(diagnet)] = rec

ValidElems ==
  {v \in BuildRjs : Rjs_from_attributes(v.attrs).ok}
    \cup {v \in BuildDlsip : DlsIP_from_attributes(v.attrs).ok}

RequiredKeys(v) ==
  IF v.name = "rjs" THEN {"prejezd", "ip", "port", "type"}
  ELSE IF ValueOf(v.attrs, "source") = HOSTS
       THEN {"source", "connection", "alias"}
  ELSE {"source", "ip"}

\* C4: an element obtained from a valid one by removing exactly one
\* required attribute fails with a ConfigError whose cause is
\* MissingAttribute naming the removed attribute.
C4_MissingAttributeNamed ==
  \A v \in ValidElems : \A k \in RequiredKeys(v) :
    ev = EmptyEvent(v.name, Without(v.attrs, k)) =>
      FailedWith(MissingAttribute(k))

\* a HOSTS dlsip that lacks only its alias
C4_Witness ==
  /\ JustReadDlsip
  /\ Has(ev.attrs, "source") /\ ValueOf(ev.attrs, "source") = HOSTS
  /\ Has(ev.attrs, "connection") /\ ~Has(ev.attrs, "alias")
  /\ FailedWith(MissingAttribute("alias"))

\* the four builder steps of an rjs element: <<>> when the step succeeds,
\* <<cause>> when it fails
Step(attrs, n) ==
  CASE n = 1 -> IF Has(attrs, "prejezd") THEN <<>>
                ELSE <<MissingAttribute("prejezd")>>
    [] n = 2 -> IF ~Has(attrs, "ip") THEN <<MissingAttribute("ip")>>
                ELSE IF parse_IpAddr(ValueOf(attrs, "ip")).ok THEN <<>>
                ELSE <<parse_IpAddr(ValueOf(attrs, "ip")).err>>
    [] n = 3 -> IF ~Has(attrs, "port") THEN <<MissingAttribute("port")>>
                ELSE IF parse_u16(ValueOf(attrs, "port")).ok THEN <<>>
                ELSE <<parse_u16(ValueOf(attrs, "port")).err>>
    [] n = 4 -> IF Has(attrs, "type") THEN <<>>
                ELSE <<MissingAttribute("type")>>
FailingSteps(attrs) == {n \in 1 .. 4 : Step(attrs, n) # <<>>}
Lowest(S) == CHOOSE n \in S : \A m \in S : n <= m

\* C5 as stated: an rjs element failing more than one step returns the error
\* of the lowest-numbered failing step (prejezd, ip, port, type).
C5_LowestStepFirst ==
  (JustReadRjs /\ Cardinality(FailingSteps(ev.attrs)) > 1) =>
    FailedWith(Step(ev.attrs, Lowest(FailingSteps(ev.attrs)))[1])

\* the six checks in the order the code makes them: ip present, port
\* present, prejezd present, ip parses, port parses, type present
Check(attrs, n) ==
  CASE n = 1 -> IF Has(attrs, "ip") THEN <<>> ELSE <<MissingAttribute("ip")>>
    [] n = 2 -> IF Has(attrs, "port") THEN <<>>
                ELSE <<MissingAttribute("port")>>
    [] n = 3 -> IF Has(attrs, "prejezd") THEN <<>>
                ELSE <<MissingAttribute("prejezd")>>
    [] n = 4 -> IF ~Has(attrs, "ip") \/ parse_IpAddr(ValueOf(attrs, "ip")).ok
                THEN <<>> ELSE <<parse_IpAddr(ValueOf(attrs, "ip")).err>>
    [] n = 5 -> IF ~Has(attrs, "port") \/ parse_u16(ValueOf(attrs, "port")).ok
                THEN <<>> ELSE <<parse_u16(ValueOf(attrs, "port")).err>>
    [] n = 6 -> IF Has(attrs, "type") THEN <<>>
                ELSE <<MissingAttribute("type")>>
FailingChecks(attrs) == {n \in 1 .. 6 : Check(attrs, n) # <<>>}

\* C5 amended: an rjs element failing more than one step returns the error
\* of the first failing check in the order ip present, port present,
\* prejezd present, ip parses, port parses, type present.
C5_FirstCheckInCodeOrder ==
  (JustReadRjs /\ Cardinality(FailingSteps(ev.attrs)) > 1) =>
    FailedWith(Check(ev.attrs, Lowest(FailingChecks(ev.attrs)))[1])

\* prejezd and ip are both absent: the error names ip
C5_Witness ==
  /\ JustReadRjs
  /\ ~Has(ev.attrs, "prejezd") /\ ~Has(ev.attrs, "ip")
  /\ Has(ev.attrs, "port")
  /\ FailedWith(MissingAttribute("ip"))

\* C6: the DlsIP variant depends on the source attribute alone: no source
\* gives MissingAttribute{source}; HOSTS with connection P2P/BROADCAST and
\* an alias gives Hosts{alias, P2P/Broadcast}; HOSTS with another connection
\* value v gives InvalidValue{connection, v}; STATIC with a parseable ip
\* gives Static{ip} whatever connection and alias are; another source value
\* s gives InvalidValue{source, s}.
C6_VariantBySource ==
  JustReadDlsip =>
    LET a == ev.attrs
        src == ValueOf(a, "source")
        con == ValueOf(a, "connection")
    IN
    /\ ~Has(a, "source") => FailedWith(MissingAttribute("source"))
    /\ (Has(a, "source") /\ src = HOSTS /\ Has(a, "connection")
          /\ con \in {P2P, BROADCAST} /\ Has(a, "alias")) =>
         BuiltDlsip([variant |-> "Hosts", alias |-> ValueOf(a, "alias"),
                     connection |-> IF con = P2P THEN "P2P" ELSE "Broadcast"])
    /\ (Has(a, "source") /\ src = HOSTS /\ Has(a, "connection")
          /\ con \notin {P2P, BROADCAST}) =>
         FailedWith(InvalidValue("connection", con))
    /\ (Has(a, "source") /\ src = STATIC /\ Has(a, "ip")
          /\ parse_IpAddr(ValueOf(a, "ip")).ok) =>
         BuiltDlsip([variant |-> "Static",
                     ip |-> parse_IpAddr(ValueOf(a, "ip")).val])
    /\ (Has(a, "source") /\ src \notin {HOSTS, STATIC}) =>
         FailedWith(InvalidValue("source", src))

\* a STATIC element that also carries an alias and an invalid connection
C6_Witness ==
  /\ JustReadDlsip
  /\ Has(ev.attrs, "source") /\ ValueOf(ev.attrs, "source") = STATIC
  /\ Has(ev.attrs, "alias")
  /\ Has(ev.attrs, "connection") /\ ValueOf(ev.attrs, "connection") = V_WIFI
  /\ BuiltDlsip([variant |-> "Static", ip |-> [v4 |-> <<10, 0, 0, 2>>]])

\* the text is a decimal numeral: digits, optionally preceded by '+'
Digits(p) == IF p # <<>> /\ Head(p) = "+" THEN Tail(p) ELSE p
IsNumeral(p) ==
  Digits(p) # <<>> /\ \A i \in 1 .. Len(Digits(p)) : Digits(p)[i] \in DigitChars
RECURSIVE DecimalValue(_)
\* the integer a digit string denotes, without any width
DecimalValue(d) ==
  IF d = <<>> THEN 0
  ELSE DecimalValue(SubSeq(d, 1, Len(d) - 1)) * 10 + to_digit(d[Len(d)])

\* C7: with the other attributes valid, the port of an rjs element is
\* accepted exactly when it denotes a decimal integer in 0 .. 65535, and
\* the record then holds that integer; a rejected port gives a ConfigError
\* with cause ParseError whose input is the attribute text and whose to is
\* "u16", and no record is added.
C7_PortRange ==
  (JustReadRjs /\ FailingSteps(ev.attrs) \subseteq {3}
     /\ Has(ev.attrs, "port")) =>
    LET p == ValueOf(ev.attrs, "port")
        inRange == IsNumeral(p) /\ DecimalValue(Digits(p)) <= 65535
    IN IF inRange
       THEN /\ result = Running
            /\ Len(rjss) = Len(seenRjs)
            /\ rjss[Len(rjss)].port = DecimalValue(Digits(p))
       ELSE /\ ReturnedErr
            /\ result.value.err.tag = "ConfigError"
            /\ result.value.err.error.kind = "ParseError"
            /\ result.value.err.error.input = p
            /\ result.value.err.error.to = "u16"
            /\ Len(rjss) = Len(seenRjs) - 1

\* port="65536", one above the range, is rejected
C7_Witness ==
  /\ JustReadRjs
  /\ Has(ev.attrs, "port") /\ ValueOf(ev.attrs, "port") = V_65536
  /\ ReturnedErr
  /\ result.value.err.error.kind = "ParseError"
  /\ result.value.err.error.input = V_65536

(***************************************************************************)
(* Path tracker properties                                                 *)
(***************************************************************************)
ConfigErrorReturned == ReturnedErr /\ result.value.err.tag = "ConfigError"

\* C8: in a document nested deeper than 10 levels no index into the path
\* array is out of bounds and no open or close tag ends the call; a
\* configuration error at a self-closing element at depth 10 or more has
\* as location the names of the 10 outermost open ancestors joined by "/".
C8_DeepNestingTruncates ==
  /\ result.tag # "Panic"
  /\ ev.kind \in {"Start", "End"} => result = Running
  /\ (ConfigErrorReturned /\ Len(opened) >= Capacity) =>
       result.value.err.location = join(SubSeq(opened, 1, Capacity))

\* a failing element below 11 open ancestors
C8_Witness ==
  /\ ConfigErrorReturned
  /\ Len(opened) > Capacity
  /\ opened[1] # opened[2]

\* C9: between two events every slot at index >= depth is empty and every
\* slot at index < min(depth, 10) holds the name of the element open at that
\* level (so a self-closing element that was processed has left the path
\* as it was before it).
C9_PathMirrorsOpenElements ==
  looping(result) =>
    \A i \in 0 .. Capacity - 1 :
      /\ i >= depth => path[i] = <<>>
      /\ (i < depth /\ i < Len(opened)) => path[i] = <<opened[i + 1]>>

DepthCountsOpen ==
  /\ result.tag # "Panic"
  /\ depth >= 0
  /\ looping(result) => depth = Len(opened)
  /\ (ReturnedOk /\ opened = <<>>) => depth = 0

\* C10: when every End closes a delivered Start, the depth counter between
\* events is the number of open elements, also above 10; it never goes
\* below 0, a self-closing element that was processed leaves it unchanged,
\* and it is 0 when Eof is reached with every element closed.
C10_DepthCountsOpenElements ==
  /\ []DepthCountsOpen
  /\ [][(ev'.kind = "Empty" /\ looping(result')) => depth' = depth]_vars

\* a self-closing element was processed below more than 10 open elements
C10_Witness ==
  /\ looping(result)
  /\ ev.kind = "Empty"
  /\ depth > Capacity
  /\ depth = Len(opened)

(***************************************************************************)
(* Further builder and walker properties                                   *)
(***************************************************************************)
JustReadHosts ==
  /\ JustReadDlsip
  /\ Has(ev.attrs, "source") /\ ValueOf(ev.attrs, "source") = HOSTS

\* C11: in a HOSTS dlsip element connection is extracted and validated
\* before alias is extracted: without connection and without alias the
\* error is MissingAttribute{connection}; with an invalid connection and
\* without alias it is InvalidValue{connection}; MissingAttribute{alias} is
\* returned only when connection is present and valid.
C11_ConnectionBeforeAlias ==
  JustReadHosts =>
    LET a == ev.attrs IN
    /\ (~Has(a, "connection") /\ ~Has(a, "alias")) =>
         FailedWith(MissingAttribute("connection"))
    /\ (Has(a, "connection") /\ ValueOf(a, "connection") \notin {P2P, BROADCAST}
          /\ ~Has(a, "alias")) =>
         FailedWith(InvalidValue("connection", ValueOf(a, "connection")))
    /\ FailedWith(MissingAttribute("alias")) =>
         (Has(a, "connection") /\ ValueOf(a, "connection") \in {P2P, BROADCAST})

\* a HOSTS element with an invalid connection and no alias
C11_Witness ==
  /\ JustReadHosts
  /\ ~Has(ev.attrs, "alias")
  /\ Has(ev.attrs, "connection")
  /\ FailedWith(InvalidValue("connection", V_WIFI))

\* C12: a self-closing rjs whose builder succeeds appends exactly its record
\* to the end of rjss and leaves diagnet unchanged; a self-closing dlsip
\* whose builder succeeds appends exactly its record to the end of diagnet
\* and leaves rjss unchanged; every other event leaves both sequences
\* unchanged (so no record is ever removed or moved).
C12_EventFrame ==
  [][ IF ev'.kind = "Empty" /\ ev'.name = "rjs"
         /\ Rjs_from_attributes(ev'.attrs).ok
      THEN /\ rjss' = Append(rjss, Rjs_from_attributes(ev'.attrs).val)
           /\ diagnet' = diagnet
      ELSE IF ev'.kind = "Empty" /\ ev'.name = "dlsip"
              /\ DlsIP_from_attributes(ev'.attrs).ok
      THEN /\ diagnet' = Append(diagnet, DlsIP_from_attributes(ev'.attrs).val)
           /\ rjss' = rjss
      ELSE rjss' = rjss /\ diagnet' = diagnet ]_vars

\* an rjs record was appended while diagnet already held a record
C12_Witness ==
  /\ JustReadRjs
  /\ result = Running
  /\ Len(rjss) = 1 /\ Len(diagnet) = 1

\* results add_location_data may be handed: what the builders return for the
\* elements of the documents, and the errors that are not configuration errors
StampInputs ==
  {Rjs_from_attributes(e.attrs) : e \in {x \in Elems : x.name = "rjs"}}
    \cup {DlsIP_from_attributes(e.attrs) : e \in {x \in Elems : x.name = "dlsip"}}
    \cup {Err(FromXmlError(e.error)) : e \in ErrEvents}
    \cup {Err(FromIoError("NotFound"))}

\* C13: stamping with the path of any reachable state changes only the
\* location of a ConfigError: the cause is kept, an Ok result is returned as
\* it is, an I/O or XML error is returned as it is and has no location; and
\* the walker returns reader errors without a location and configuration
\* errors with the builder's cause.
C13_StampChangesLocationOnly ==
  /\ \A res \in StampInputs :
       LET out == add_location_data(res, path) IN
       IF res.ok THEN out = res
       ELSE IF res.err.tag = "ConfigError"
       THEN /\ ~out.ok
            /\ DOMAIN out.err = DOMAIN res.err
            /\ out.err.tag = "ConfigError"
            /\ out.err.error = res.err.error
       ELSE out = res /\ "location" \notin DOMAIN out.err
  /\ (ReturnedErr /\ ev.kind = "Err") =>
       /\ result.value.err = FromXmlError(ev.error)
       /\ DOMAIN result.value.err = {"tag", "error"}
  /\ (ReturnedErr /\ ev.kind = "Empty") =>
       /\ result.value.err.tag = "ConfigError"
       /\ result.value.err.error = ErrorOf(ev).error

\* a stamped InvalidValue error was returned
C13_Witness ==
  /\ ConfigErrorReturned
  /\ result.value.err.error.kind = "InvalidValue"
  /\ result.value.err.location # "unknown location"
  /\ path[1] # <<>>

ClosesBuilderName ==
  opened # <<>> /\ opened[Len(opened)] \in {"rjs", "dlsip"}

\* C14: an element named rjs or dlsip written with an open tag and a close
\* tag is never handed to a builder: neither tag adds a record or ends the
\* call, whatever the attributes; the open tag only records the name in the
\* path.
C14_OpenTagsNotDispatched ==
  /\ [][ (\/ ev'.kind = "Start" /\ ev'.name \in {"rjs", "dlsip"}
          \/ ev'.kind = "End" /\ ClosesBuilderName)
        => (rjss' = rjss /\ diagnet' = diagnet /\ result' = Running) ]_vars
  /\ []((ev.kind = "Start" /\ Len(opened) <= Capacity) =>
          path[Len(opened) - 1] = <<ev.name>>)

\* an open tag <rjs> with an invalid port was read and nothing was built
C14_Witness ==
  /\ ev = StartEvent("rjs", RjsAttrs(V_P1, V_IP1, V_70000, V_A))
  /\ result = Running
  /\ rjss = <<>>
  /\ path[0] = <<"rjs">>

\* QName::local_name() of the tag names used in the documents
LocalName(n) ==
  IF n = "p:rjs" THEN "rjs" ELSE IF n = "p:dlsip" THEN "dlsip" ELSE n

\* what reading the self-closing element ev' does when it goes to builder k
DispatchedTo(k) ==
  IF k = "rjs"
  THEN IF Rjs_from_attributes(ev'.attrs).ok
       THEN /\ result' = Running
            /\ rjss' = Append(rjss, Rjs_from_attributes(ev'.attrs).val)
            /\ diagnet' = diagnet
       ELSE /\ result'.tag = "Returned" /\ ~result'.value.ok
            /\ result'.value.err.error = Rjs_from_attributes(ev'.attrs).err.error
  ELSE IF k = "dlsip"
  THEN IF DlsIP_from_attributes(ev'.attrs).ok
       THEN /\ result' = Running
            /\ diagnet' = Append(diagnet, DlsIP_from_attributes(ev'.attrs).val)
            /\ rjss' = rjss
       ELSE /\ result'.tag = "Returned" /\ ~result'.value.ok
            /\ result'.value.err.error = DlsIP_from_attributes(ev'.attrs).err.error
  ELSE result' = Running /\ rjss' = rjss /\ diagnet' = diagnet

BuilderFor(n) ==
  IF n = "rjs" THEN "rjs" ELSE IF n = "dlsip" THEN "dlsip" ELSE "none"

\* C15 as stated: a self-closing element goes to the Rjs (DlsIP) builder
\* exactly when its local name is rjs (dlsip), whatever its prefix.
C15_DispatchByLocalName ==
  [][ev'.kind = "Empty" => DispatchedTo(BuilderFor(LocalName(ev'.name)))]_vars

\* C15 amended: a self-closing element goes to the Rjs (DlsIP) builder
\* exactly when its whole tag name, prefix included, is rjs (dlsip); an
\* element with a prefix, such as p:rjs, goes to no builder.
C15_DispatchByQualifiedName ==
  [][ev'.kind = "Empty" => DispatchedTo(BuilderFor(ev'.name))]_vars

\* <p:dlsip source="FOO"/> was read: no error, no record
C15_Witness ==
  /\ ev = EmptyEvent("p:dlsip", <<<<"source", V_FOO>>>>)
  /\ result = Running
  /\ diagnet = <<>>

\* C16: every ConfigError the call returns has been stamped: its location is
\* the join of the names recorded in the path, of which there is at least
\* one, so it is neither empty nor the default "unknown location"; this at
\* depth 0, below 10 and at 10 and above.
C16_ConfigErrorsAreStamped ==
  ConfigErrorReturned =>
    /\ \E i \in DOMAIN path : path[i] # <<>>
    /\ result.value.err.location = join(filter_names(path, 0))
    /\ result.value.err.location # ""
    /\ result.value.err.location # "unknown location"

\* a failing dlsip element at depth 0
C16_Witness ==
  /\ ConfigErrorReturned
  /\ opened = <<>>
  /\ result.value.err.location = "dlsip"

\* C17: on a finite event stream the call eventually returns; it returns Ok
\* at the first Eof when nothing failed before it and Err at the first
\* reader error or failing builder, and once it has returned no further
\* event is read.
C17_WalkerTerminates ==
  /\ <>(result.tag = "Returned")
  /\ [](ev.kind = "Eof" => (ReturnedOk /\ firstBad = <<>>))
  /\ [](result.tag = "Returned" =>
          IF firstBad = <<>> THEN ev.kind = "Eof" /\ result.value.ok
          ELSE ev = firstBad[1] /\ ~result.value.ok)
  /\ [][~looping(result) => UNCHANGED vars]_vars

\* Eof was reached after two rjs records
C17_Witness ==
  /\ ReturnedOk
  /\ ev.kind = "Eof"
  /\ Len(result.value.val.rjss) = 2

LookupKeys ==
  {"prejezd", "ip", "port", "type", "source", "connection", "alias"}

\* C18: on the attributes of every element read, find_attribute returns the
\* value of the first attribute in document order whose key is exactly the
\* name asked for, also when the key occurs again later, and
\* MissingAttribute{name} exactly when no attribute has that key; each
\* lookup of a builder sees the whole attribute list, so the record built
\* holds the first values whatever the order of the attributes, and a
\* MissingAttribute error names a key the element does not have.
C18_FirstExactMatch ==
  ev.kind = "Empty" =>
    /\ \A k \in LookupKeys :
         find_attribute(ev.attrs, k) =
           IF Has(ev.attrs, k) THEN Ok(ValueOf(ev.attrs, k))
           ELSE Err(FromConfigError(MissingAttribute(k)))
    /\ (JustReadRjs /\ result = Running) =>
         /\ rjss[Len(rjss)].prejezd = ValueOf(ev.attrs, "prejezd")
         /\ rjss[Len(rjss)].rjs_type = ValueOf(ev.attrs, "type")
         /\ rjss[Len(rjss)].ip = parse_IpAddr(ValueOf(ev.attrs, "ip")).val
    /\ \A k \in LookupKeys :
         (dispatch(ev) # "none" /\ FailedWith(MissingAttribute(k))) =>
           ~Has(ev.attrs, k)

\* an rjs element with two ip attributes was built with the first one
C18_Witness ==
  /\ JustReadRjs
  /\ result = Running
  /\ Len(ev.attrs) = 5 /\ ev.attrs[1][1] = "ip" /\ ev.attrs[2][1] = "ip"
  /\ ev.attrs[1][2] # ev.attrs[2][2]
  /\ rjss[Len(rjss)].ip = [v4 |-> <<10, 0, 0, 1>>]

====
